---- MODULE Spec2Model ----
(***************************************************************************)
(* A model of picam-imx335.                                                *)
(*   process_raw_imx335.py: unpack_raw10 (the CSI-2 RAW10 unpacker), the   *)
(*     tone curve of process_file, and the batch loop of main();           *)
(*   imx335.py: the gain -> ISO mapping of SimpleCameraApp.run, the key    *)
(*     handling, and the capture threads sharing the camera.               *)
(* Each component has its own variables and its own specification; a      *)
(* specification leaves the other components' variables at rest.           *)
(***************************************************************************)
EXTENDS Integers, Sequences, FiniteSets, TLC

VARIABLES
  \* --- unpack_raw10 harness
  u_pc,         \* "input" -> "ready" -> "done" -> "compared"
  u_origin,     \* how packed_array was made: "none" | "synth" | "raw"
  u_width,      \* argument width
  u_height,     \* argument height
  u_grid,       \* the pixel grid a synthesized buffer encodes (row-major)
  u_stride,     \* the stride the synthesized buffer was packed with
  u_packed,     \* argument packed_array (flat)
  u_ret,        \* outcome of unpack_raw10(u_packed, u_width, u_height)
  u_twin,       \* a second buffer of the same length
  u_twin_ret,   \* outcome of unpack_raw10(u_twin, u_width, u_height)
  \* --- main() / process_file
  b_pc,         \* "start" -> "loop" -> "done" ("crashed": uncaught exception)
  b_dir,        \* INPUT_DIR: file name -> stored file (or Absent)
  b_outdir,     \* whether OUTPUT_DIR exists
  b_files,      \* main's local files
  b_idx,        \* position of the for loop in files (1-based)
  b_calls,      \* the file names process_file was called with, in order
  b_writes,     \* the cv2.imwrite calls made: [path, src]
  b_log,        \* the lines printed
  \* --- gain -> ISO mapping of SimpleCameraApp.run (gains in 1/100)
  i_pc,          \* "start" | "mapped" (lines 125-149 ran) | "snapped" (line 149 ran)
  i_ae_enabled,  \* self.ae_enabled
  i_manual_gain, \* self.manual_gain, NoGain for None
  i_analogue,    \* analogue_gain of the metadata
  i_digital,     \* digital_gain of the metadata
  i_display_gain,\* display_gain before the clamp of line 132
  i_iso_float,   \* iso_float, in units of 1/IsoOne
  i_iso_est,     \* iso_est
  \* --- tone curve of process_file
  t_pc,         \* "start" | "rendered"
  t_sample,     \* a sample of bgr_image
  t_final,      \* the sample of final_img made from it
  \* --- key handling of SimpleCameraApp (gains in 1/100, exposures in us)
  k_pc,                 \* "start" | "handled" (a key was handled) | "still"
  k_n,                  \* the number of keys handled
  k_ae_enabled,         \* self.ae_enabled
  k_manual_exposure_us, \* self.manual_exposure_us, NoValue for None
  k_manual_gain,        \* self.manual_gain, NoValue for None
  k_key,                \* the key handled last
  k_sent,               \* the controls the last step sent, NoCtrl if none
  \* --- the camera, the main loop and the capture threads
  c_main_pc,     \* run(): "frame" -> "framing" -> "key" -> ... "finally" -> "exited"
  c_running,     \* self.running
  c_raw_mode,    \* self.raw_mode
  c_pc,          \* per thread: position in _capture_still
  c_filename,    \* per thread: extension of the local filename
  c_cfg,         \* per thread: the local cfg
  c_call,        \* per thread: the capture call made
  c_shot,        \* per thread: the camera configuration the still was taken in
  c_cam_config,  \* the configuration the camera is in
  c_cam_started, \* whether the camera is started
  c_frame_on     \* the camera state the last preview capture_array() ran on

unpackVars == <<u_pc, u_origin, u_width, u_height, u_grid, u_stride,
                u_packed, u_ret, u_twin, u_twin_ret>>

batchVars == <<b_pc, b_dir, b_outdir, b_files, b_idx, b_calls, b_writes, b_log>>

isoVars == <<i_pc, i_ae_enabled, i_manual_gain, i_analogue, i_digital,
             i_display_gain, i_iso_float, i_iso_est>>

toneVars == <<t_pc, t_sample, t_final>>

keyVars == <<k_pc, k_n, k_ae_enabled, k_manual_exposure_us, k_manual_gain, k_key, k_sent>>

camVars == <<c_main_pc, c_running, c_raw_mode, c_pc, c_filename, c_cfg, c_call,
             c_shot, c_cam_config, c_cam_started, c_frame_on>>

vars == <<unpackVars, batchVars, isoVars, toneVars, keyVars, camVars>>

(***************************************************************************)
(* Bounds of the model.                                                    *)
(***************************************************************************)
MaxWidth == 8
MaxHeight == 5
MaxPixels == 8
MaxPad == 1

Min(a, b) == IF a < b THEN a ELSE b
Max(a, b) == IF a < b THEN b ELSE a

(***************************************************************************)
(* numpy integer helpers used by unpack_raw10.                             *)
(***************************************************************************)
\* .astype(np.uint8): wraps modulo 2^8.
AsUint8(x) == x % 256

\* .astype(np.uint16) of a non-negative integer: wraps modulo 2^16.
AsUint16(x) == x % 65536

\* a & b on non-negative integers.
RECURSIVE BitAnd(_, _)
BitAnd(a, b) ==
  IF a = 0 \/ b = 0 THEN 0
  ELSE (a % 2) * (b % 2) + 2 * BitAnd(a \div 2, b \div 2)

\* a | b on non-negative integers.
RECURSIVE BitOr(_, _)
BitOr(a, b) ==
  IF a = 0 THEN b
  ELSE IF b = 0 THEN a
  ELSE (IF a % 2 = 1 \/ b % 2 = 1 THEN 1 ELSE 0) + 2 * BitOr(a \div 2, b \div 2)

\* a << n in uint16.
ShiftLeft16(a, n) == AsUint16(a * (2 ^ n))

\* a >> n.
ShiftRight(a, n) == a \div (2 ^ n)

\* ndarray.reshape((rows, cols)) succeeds iff the sizes agree (else ValueError).
ReshapeOk(size, rows, cols) == rows * cols = size

\* ndarray.reshape((rows, cols)) of a flat array, row-major.
Reshape2(flat, rows, cols) ==
  [r \in 1..rows |-> SubSeq(flat, (r - 1) * cols + 1, r * cols)]

\* rows[:, :n]: a slice never fails, it stops at the row's end.
CropColumns(rows, n) ==
  [r \in 1..Len(rows) |-> SubSeq(rows[r], 1, Min(n, Len(rows[r])))]

\* ndarray.flatten() of a 2-D array, row-major.
RECURSIVE Flatten(_)
Flatten(rows) ==
  IF rows = <<>> THEN <<>> ELSE Head(rows) \o Flatten(Tail(rows))

\* Number of elements of the slice unpacked[k::4] of an array of n elements.
StridedLen(n, k) == IF n > k THEN (n - k + 3) \div 4 ELSE 0

\* unpacked[k::4] = p is accepted iff p has the slice's length or broadcasts
\* from a single element (else ValueError).
AssignOk(n, k, p) == Len(p) = StridedLen(n, k) \/ Len(p) = 1

\* The element unpacked[k::4][j] takes from p (j counted from 1).
Broadcast(p, j) == IF Len(p) = 1 THEN p[1] ELSE p[j]

(***************************************************************************)
(* unpack_raw10: the four 10-bit samples of a 5-byte block.                *)
(***************************************************************************)
P0_mutant_shift3(msb, lsb_byte) ==
  BitOr(ShiftLeft16(msb, 3), BitAnd(lsb_byte, 3))

P0(msb, lsb_byte) == BitOr(ShiftLeft16(msb, 2), BitAnd(lsb_byte, 3))

P1_mutant_bits45(msb, lsb_byte) ==
  BitOr(ShiftLeft16(msb, 2), BitAnd(ShiftRight(lsb_byte, 4), 3))

P1(msb, lsb_byte) ==
  BitOr(ShiftLeft16(msb, 2), BitAnd(ShiftRight(lsb_byte, 2), 3))

P2(msb, lsb_byte) ==
  BitOr(ShiftLeft16(msb, 2), BitAnd(ShiftRight(lsb_byte, 4), 3))

P3(msb, lsb_byte) ==
  BitOr(ShiftLeft16(msb, 2), BitAnd(ShiftRight(lsb_byte, 6), 3))

\* Outcomes of a call.
ReturnNone == [kind |-> "None"]
Raise(exc) == [kind |-> exc]
ReturnFrame(img) == [kind |-> "frame", img |-> img]

\* int(width * 1.25)
ValidPackedWidth(width) == (width * 5) \div 4

\* raw_rows[:, :valid_packed_width]
CropPadding_mutant_tail(raw_rows, valid_packed_width) ==
  [r \in 1..Len(raw_rows) |->
     SubSeq(raw_rows[r],
            Max(1, Len(raw_rows[r]) - valid_packed_width + 1),
            Len(raw_rows[r]))]

CropPadding(raw_rows, valid_packed_width) ==
  CropColumns(raw_rows, valid_packed_width)

\* Step 6: unpacked[0::4] = p0 ... unpacked[3::4] = p3 on zeros((n_pixels,)).
Interleave(n_pixels, p0, p1, p2, p3) ==
  [i \in 1..n_pixels |->
     LET k == (i - 1) % 4
         j == ((i - 1) \div 4) + 1
     IN CASE k = 0 -> Broadcast(p0, j)
          [] k = 1 -> Broadcast(p1, j)
          [] k = 2 -> Broadcast(p2, j)
          [] OTHER -> Broadcast(p3, j)]

unpack_raw10(packed_array, width, height) ==
  LET raw_bytes == [i \in 1..Len(packed_array) |-> AsUint8(packed_array[i])]
      file_size == Len(raw_bytes)
  IN
  IF height = 0 THEN Raise("ZeroDivisionError")
  ELSE
  LET stride == file_size \div height
      valid_packed_width == ValidPackedWidth(width)
  IN
  IF ~ReshapeOk(file_size, height, stride) THEN ReturnNone
  ELSE
  LET raw_rows == CropPadding(Reshape2(raw_bytes, height, stride),
                              valid_packed_width)
      flat_packed == Flatten(raw_rows)
      n_pixels == width * height
      n_blocks == n_pixels \div 4
  IN
  IF ~ReshapeOk(Len(flat_packed), n_blocks, 5) THEN Raise("ValueError")
  ELSE
  LET blocks == Reshape2(flat_packed, n_blocks, 5)
      p0 == [b \in 1..n_blocks |-> P0(blocks[b][1], blocks[b][5])]
      p1 == [b \in 1..n_blocks |-> P1(blocks[b][2], blocks[b][5])]
      p2 == [b \in 1..n_blocks |-> P2(blocks[b][3], blocks[b][5])]
      p3 == [b \in 1..n_blocks |-> P3(blocks[b][4], blocks[b][5])]
  IN
  IF ~(AssignOk(n_pixels, 0, p0) /\ AssignOk(n_pixels, 1, p1)
       /\ AssignOk(n_pixels, 2, p2) /\ AssignOk(n_pixels, 3, p3))
  THEN Raise("ValueError")
  ELSE ReturnFrame(Reshape2(Interleave(n_pixels, p0, p1, p2, p3),
                            height, width))

(***************************************************************************)
(* The CSI-2 RAW10 layout of the docstring, as an encoder: 4 pixels ->     *)
(* [P0_MSB][P1_MSB][P2_MSB][P3_MSB][LSBs], LSBs = [P3:2][P2:2][P1:2][P0:2],*)
(* each row followed by stride - width*5/4 padding bytes.                  *)
(***************************************************************************)
PackBlock(a, b, c, d) ==
  << a \div 4, b \div 4, c \div 4, d \div 4,
     (a % 4) + 4 * (b % 4) + 16 * (c % 4) + 64 * (d % 4) >>

RECURSIVE PackRow(_)
PackRow(row) ==
  IF Len(row) < 4 THEN <<>>
  ELSE PackBlock(row[1], row[2], row[3], row[4])
         \o PackRow(SubSeq(row, 5, Len(row)))

PackRaw10(grid, width, height, stride, padv) ==
  Flatten([r \in 1..height |->
             PackRow(SubSeq(grid, (r - 1) * width + 1, r * width))
               \o [i \in 1..(stride - ValidPackedWidth(width)) |-> padv]])

(***************************************************************************)
(* process_file and main of process_raw_imx335.py.                         *)
(***************************************************************************)
\* W, H = 2592, 1944 in the source: 648 blocks of 4 pixels by 1944 rows. The
\* model keeps the shape of the numbers (W % 4 = 0, a 12-bit row longer than
\* a 10-bit row) at a size TLC can enumerate.
FrameBlocks == 1
FrameRows == 2

W == 4 * FrameBlocks
H == FrameRows

\* The raw stream formats SimpleCameraApp.__init__ can configure for stills:
\* the format of the sensor mode that matches STILL_SIZE, or the fallback
\* 'SRGGB12_CSI2P'.
RawStillFormats == {"SRGGB10_CSI2P", "SRGGB12_CSI2P"}

BitsPerPixel(fmt) == IF fmt = "SRGGB10_CSI2P" THEN 10 ELSE 12

\* A sequence of length n that repeats the pattern pat.
Repeat(pat, n) == [i \in 1..n |-> pat[((i - 1) % Len(pat)) + 1]]

\* A stored .npz whose 'raw' member has n bytes of the given format.
Capture(fmt, n) ==
  [kind |-> "npz", loadable |-> TRUE, fmt |-> fmt, raw |-> Repeat(<<228, 27>>, n)]

\* A file np.load (or data['raw']) raises on.
Unloadable ==
  [kind |-> "npz", loadable |-> FALSE, fmt |-> "SRGGB10_CSI2P", raw |-> <<>>]

Absent == [kind |-> "absent"]

\* A file of INPUT_DIR that is no capture.
OtherFile == [kind |-> "other"]

\* The row length in bytes the driver gives a W-pixel row, pad bytes included.
RowBytes(fmt, pad) == (W * BitsPerPixel(fmt)) \div 8 + pad

StoredFiles ==
  { Capture(fmt, H * RowBytes(fmt, pad)) : fmt \in RawStillFormats, pad \in 0..MaxPad }
    \cup { Capture("SRGGB10_CSI2P", H * RowBytes("SRGGB10_CSI2P", 0) + 1),
           Capture("SRGGB10_CSI2P", H * (RowBytes("SRGGB10_CSI2P", 0) - 1)),
           Unloadable }

\* File names, as token sequences ("a.npz.npz" = <<"a", ".npz", ".npz">>).
FileNames ==
  { <<"a", ".npz">>, <<"a", ".npz", ".npz">>, <<"a", ".png", ".npz">>,
    <<"b", ".png">> }

\* Character order of the tokens: '.' < 'a' < 'b', and ".npz" < ".png".
TokenRank(t) ==
  CASE t = ".npz" -> 0 [] t = ".png" -> 1 [] t = "a" -> 2 [] OTHER -> 3

\* a < b for Python strings.
RECURSIVE NameLess(_, _)
NameLess(a, b) ==
  IF a = <<>> THEN b # <<>>
  ELSE IF b = <<>> THEN FALSE
  ELSE IF Head(a) = Head(b) THEN NameLess(Tail(a), Tail(b))
  ELSE TokenRank(Head(a)) < TokenRank(Head(b))

\* sorted(...)
RECURSIVE sorted(_)
sorted(S) ==
  IF S = {} THEN <<>>
  ELSE LET m == CHOOSE x \in S : \A y \in S \ {x} : NameLess(x, y)
       IN <<m>> \o sorted(S \ {m})

\* glob.glob(os.path.join(INPUT_DIR, "*.npz"))
glob_npz(dir) ==
  {n \in DOMAIN dir : dir[n] # Absent /\ n[Len(n)] = ".npz"}

\* os.path.basename(filepath).replace('.npz', '.png')
out_name(name) ==
  [i \in 1..Len(name) |-> IF name[i] = ".npz" THEN ".png" ELSE name[i]]

\* The exceptions process_file's "except Exception" handler catches.
Caught_mutant_oserror_only(exc) == exc = "OSError"

Caught(exc) == exc \in {"OSError", "KeyError", "ValueError", "ZeroDivisionError"}

\* What process_file(filepath) does with the stored file f: the outcome of
\* the try block ("saved", "returned" after unpack_raw10 gave None, or the
\* exception raised inside it).
TryBlock(f) ==
  IF ~f.loadable THEN [end |-> "raised", exc |-> "OSError"]
  ELSE LET raw_16bit == unpack_raw10(f.raw, W, H)
       IN IF raw_16bit = ReturnNone THEN [end |-> "returned", exc |-> ""]
          ELSE IF raw_16bit.kind # "frame"
               THEN [end |-> "raised", exc |-> raw_16bit.kind]
          ELSE [end |-> "saved", exc |-> ""]

\* The lines process_file prints (unpack_raw10's lines included).
Printed(name, f, t) ==
  <<[line |-> "Processing", arg |-> name]>>
    \o (IF f.loadable THEN <<[line |-> "Debug: Size, Stride", arg |-> Len(f.raw)]>>
        ELSE <<>>)
    \o (CASE t.end = "returned" -> <<[line |-> "Error: shape mismatch", arg |-> Len(f.raw)]>>
          [] t.end = "saved" -> <<[line |-> "Saved", arg |-> out_name(name)]>>
          [] OTHER -> IF Caught(t.exc) THEN <<[line |-> "Failed", arg |-> t.exc]>>
                      ELSE <<>>)

(***************************************************************************)
(* Floating point, as fixed point. A real x is the integer x * FixOne      *)
(* (FixOne = 2^24, about 7 decimal digits: float32's precision); every     *)
(* product stays below 2^31. math.log, ** and np.power are computed, by    *)
(* range reduction and power series, to within a few units of 1/FixOne.    *)
(***************************************************************************)
FixHalf == 2 ^ 12
FixOne == FixHalf * FixHalf

Abs(x) == IF x < 0 THEN -x ELSE x

\* floor(a / b) for b > 0 and any a.
FloorDiv(a, b) == IF a >= 0 THEN a \div b ELSE -((-a + b - 1) \div b)

\* m * 2^e
Scale2(m, e) == IF e >= 0 THEN m * (2 ^ e) ELSE m \div (2 ^ (-e))

\* a * b of two fixed-point numbers, 0 <= a, b < 2^27.
FixMulPos(a, b) ==
  LET ah == a \div FixHalf
      al == a % FixHalf
      bh == b \div FixHalf
      bl == b % FixHalf
  IN ah * bh + (ah * bl + al * bh) \div FixHalf + (al * bl) \div FixOne

\* a * b of two fixed-point numbers, b >= 0.
FixMul(a, b) == IF a < 0 THEN -FixMulPos(-a, b) ELSE FixMulPos(a, b)

\* The fixed-point quotient a / b of two integers 0 <= a, 0 < b < 2^27, by
\* long division in base 16 (FixOne = 16^6).
RECURSIVE FixDivDigits(_, _, _, _)
FixDivDigits(q, r, b, k) ==
  IF k = 0 THEN q
  ELSE IF r = 0 THEN q * (16 ^ k)
  ELSE FixDivDigits(q * 16 + (r * 16) \div b, (r * 16) % b, b, k - 1)

FixDiv(a, b) == FixDivDigits(a \div b, a % b, b, 6)

\* atanh(z) = z + z^3/3 + z^5/5 + ... for 0 <= z <= 1/3: pow is z^n, sum the
\* terms before it; the series ends when z^n is below 1/FixOne.
RECURSIVE FixAtanhSeries(_, _, _, _)
FixAtanhSeries(z2, pow, n, sum) ==
  IF pow = 0 THEN sum
  ELSE FixAtanhSeries(z2, FixMul(pow, z2), n + 2, sum + pow \div n)

FixAtanh(z) == FixAtanhSeries(FixMul(z, z), z, 1, 0)

\* ln 2 = 2 atanh(1/3)
FixLn2 == 2 * FixAtanh(FixDiv(1, 3))

\* math.log(n / d) for integers n, d > 0: ln(m * 2^e) = e ln 2 + ln m with
\* 1 <= m < 2, and ln m = 2 atanh((m - 1) / (m + 1)).
RECURSIVE FixLn(_, _)
FixLn(n, d) ==
  IF n >= 2 * d THEN FixLn2 + FixLn(n, 2 * d)
  ELSE IF n < d THEN FixLn(2 * n, d) - FixLn2
  ELSE LET m == FixDiv(n, d)
       IN 2 * FixAtanh(FixDiv(m - FixOne, m + FixOne))

\* e^r = 1 + r + r^2/2! + ... for 0 <= r < ln 2: term is r^(k-1)/(k-1)!, sum
\* the terms before it; the series ends when the term is below 1/FixOne.
RECURSIVE FixExpSeries(_, _, _, _)
FixExpSeries(r, term, k, sum) ==
  IF term = 0 THEN sum
  ELSE FixExpSeries(r, FixMul(term, r) \div k, k + 1, sum + term)

\* e^t as mant * 2^exp with 1 <= mant < 2 (fixed point).
FixExp(t) ==
  LET n == FloorDiv(t, FixLn2)
  IN [mant |-> FixExpSeries(t - n * FixLn2, FixOne, 1, 0), exp |-> n]

\* (n / d) ** e for integers n >= 0, d > 0 and a fixed-point e > 0, as
\* mant * 2^exp; 0 ** e = 0.
FixPow(n, d, e) ==
  IF n = 0 THEN [mant |-> 0, exp |-> 0]
  ELSE FixExp(FixMul(FixLn(n, d), e))

(***************************************************************************)
(* The gain -> ISO mapping of SimpleCameraApp.run (imx335.py 125-149).     *)
(* Gains are integers in 1/100 (the metadata gains are rounded to two      *)
(* decimals); iso_float is an integer in 1/IsoOne.                         *)
(***************************************************************************)
GAIN_MIN == 100
GAIN_MAX == 960
ISO_MIN == 100
ISO_MAX == 6400

STANDARD_ISOS ==
  << 100, 110, 125, 140, 160, 180, 200, 220, 250, 280, 320, 400, 500, 640,
     800, 1000, 1250, 1600, 2000, 2200, 2350, 2500, 2800, 3000, 3200, 3600,
     4000, 4500, 5000, 5600, 6400 >>

\* self.manual_gain = None
NoGain == -1

IsoOne == 2 ^ 18

\* round(x, 2) of a product of two gains: p is in 1/10000, the result in 1/100.
Round2(p) ==
  LET q == p \div 100
      r == p % 100
  IN IF r > 50 \/ (r = 50 /\ q % 2 = 1) THEN q + 1 ELSE q

\* total_gain = round(analogue_gain * digital_gain, 2)
TotalGain(analogue_gain, digital_gain) == Round2(analogue_gain * digital_gain)

\* display_gain = self.manual_gain if (not self.ae_enabled and
\*                self.manual_gain is not None) else total_gain
DisplayGain(ae_enabled, manual_gain, total_gain) ==
  IF ~ae_enabled /\ manual_gain # NoGain THEN manual_gain ELSE total_gain

\* display_gain = max(1.0, min(9.6, display_gain))
ClampGain(g) == Max(100, Min(960, g))

\* expo = math.log(ISO_MAX / ISO_MIN) / math.log(GAIN_MAX / GAIN_MIN)
Expo_mutant_inverted ==
  IF GAIN_MAX > GAIN_MIN /\ ISO_MAX > ISO_MIN
  THEN FixDiv(FixLn(GAIN_MAX, GAIN_MIN), FixLn(ISO_MAX, ISO_MIN))
  ELSE FixOne

Expo ==
  IF GAIN_MAX > GAIN_MIN /\ ISO_MAX > ISO_MIN
  THEN FixDiv(FixLn(ISO_MAX, ISO_MIN), FixLn(GAIN_MAX, GAIN_MIN))
  ELSE FixOne

\* iso_float = ISO_MIN * ((display_gain / GAIN_MIN) ** expo)
IsoFloat_mutant_descending(display_gain) ==
  LET p == FixPow(GAIN_MAX, display_gain, Expo)
  IN Scale2(p.mant \div (FixOne \div IsoOne), p.exp) * ISO_MIN

IsoFloat(display_gain) ==
  LET p == FixPow(display_gain, GAIN_MIN, Expo)
  IN Scale2(p.mant \div (FixOne \div IsoOne), p.exp) * ISO_MIN

\* key=lambda s: abs(s - iso_float)
SnapKey(s, iso_float) == Abs(s * IsoOne - iso_float)

\* min(seq, key=...): the first element whose key is minimal. best is the
\* element kept so far, i the next index.
RECURSIVE MinByKey_mutant_last(_, _, _, _)
MinByKey_mutant_last(seq, iso_float, i, best) ==
  IF i > Len(seq) THEN best
  ELSE IF SnapKey(seq[i], iso_float) <= SnapKey(best, iso_float)
  THEN MinByKey_mutant_last(seq, iso_float, i + 1, seq[i])
  ELSE MinByKey_mutant_last(seq, iso_float, i + 1, best)

RECURSIVE MinByKey(_, _, _, _)
MinByKey(seq, iso_float, i, best) ==
  IF i > Len(seq) THEN best
  ELSE IF SnapKey(seq[i], iso_float) < SnapKey(best, iso_float)
  THEN MinByKey(seq, iso_float, i + 1, seq[i])
  ELSE MinByKey(seq, iso_float, i + 1, best)

\* iso_est = min(STANDARD_ISOS, key=lambda s: abs(s - iso_float))
SnapIso(iso_float) == MinByKey(STANDARD_ISOS, iso_float, 2, STANDARD_ISOS[1])

\* Lines 132-149 for every gain the clamp can produce, evaluated once.
IsoFloatOf == [g \in GAIN_MIN..GAIN_MAX |-> IsoFloat(g)]
IsoEstOf == [g \in GAIN_MIN..GAIN_MAX |-> SnapIso(IsoFloatOf[g])]

(***************************************************************************)
(* The tone curve of process_file (process_raw_imx335.py 98-105), for one  *)
(* sample of bgr_image.                                                    *)
(***************************************************************************)
ENABLE_GAMMA == TRUE

\* norm = bgr_image.astype(np.float32) / 1023.0, as the fraction sample/1023;
\* gamma = np.power(norm, 1/2.2), fixed point.
Gamma(sample) ==
  LET p == FixPow(sample, 1023, FixDiv(10, 22))
  IN Scale2(p.mant, p.exp)

\* np.clip(gamma, 0, 1)
Clip01(x) == Max(0, Min(FixOne, x))

\* floor(x * 65535) of a fixed-point 0 <= x <= 1.
TimesFullScale_mutant_65536(x) == (x * 16) \div (FixOne \div 4096)

TimesFullScale(x) ==
  LET t == (x \div FixHalf) * 65535
  IN t \div FixHalf + ((t % FixHalf) * FixHalf + (x % FixHalf) * 65535) \div FixOne

\* final_img = (np.clip(gamma, 0, 1) * 65535).astype(np.uint16)   if ENABLE_GAMMA
\*             (bgr_image * 64).astype(np.uint16)                 otherwise
FinalSample(sample) ==
  IF ENABLE_GAMMA THEN AsUint16(TimesFullScale(Clip01(Gamma(sample))))
  ELSE AsUint16(sample * 64)

\* The tone curve for every 10-bit sample, evaluated once.
FinalSampleOf == [a \in 0..1023 |-> FinalSample(a)]

(***************************************************************************)
(* SimpleCameraApp (imx335.py): the manual controls. Exposures are in us,  *)
(* gains in 1/100.                                                         *)
(***************************************************************************)
EXP_STEP_US == 2000
GAIN_STEP == 10
MIN_EXPOSURE_US == 100
MAX_EXPOSURE_US == 85000
MIN_GAIN == 100
MAX_GAIN == 960

\* None, for self.manual_exposure_us and self.manual_gain.
NoValue == -1

\* No set_controls call.
NoCtrl == [sent |-> FALSE]

\* "x or y" of Python for a number or None: y when x is None or 0.
Or(x, y) == IF x = NoValue \/ x = 0 THEN y ELSE x

\* The dict given to set_controls: the keys ExposureTime and AnalogueGain are
\* there only for a truthy manual value (NoValue: key absent).
Controls(ae, manual_exposure_us, manual_gain) ==
  [sent |-> TRUE, AeEnable |-> ae,
   ExposureTime |-> Or(manual_exposure_us, NoValue),
   AnalogueGain |-> Or(manual_gain, NoValue)]

\* _apply_manual_controls: the controls it sends.
apply_manual_controls(manual_exposure_us, manual_gain) ==
  Controls(FALSE, manual_exposure_us, manual_gain)

\* _toggle_ae(cur_exposure_us, cur_gain) on the state st = [ae_enabled,
\* manual_exposure_us, manual_gain]: the new state and the controls sent.
toggle_ae_mutant_keeps_gain(st, cur_exposure_us, cur_gain) ==
  IF ~st.ae_enabled
  THEN [ae_enabled |-> TRUE, manual_exposure_us |-> NoValue,
        manual_gain |-> st.manual_gain,
        sent |-> [sent |-> TRUE, AeEnable |-> TRUE,
                  ExposureTime |-> NoValue, AnalogueGain |-> NoValue]]
  ELSE [ae_enabled |-> FALSE,
        manual_exposure_us |-> Or(cur_exposure_us, 1000),
        manual_gain |-> Or(cur_gain, 100),
        sent |-> apply_manual_controls(Or(cur_exposure_us, 1000), Or(cur_gain, 100))]

toggle_ae(st, cur_exposure_us, cur_gain) ==
  IF ~st.ae_enabled
  THEN [ae_enabled |-> TRUE, manual_exposure_us |-> NoValue,
        manual_gain |-> NoValue,
        sent |-> [sent |-> TRUE, AeEnable |-> TRUE,
                  ExposureTime |-> NoValue, AnalogueGain |-> NoValue]]
  ELSE [ae_enabled |-> FALSE,
        manual_exposure_us |-> Or(cur_exposure_us, 1000),
        manual_gain |-> Or(cur_gain, 100),
        sent |-> apply_manual_controls(Or(cur_exposure_us, 1000), Or(cur_gain, 100))]

\* The keys of _handle_keypress that change the manual values.
AdjustKeys == {"[", "]", "-", "=", "+"}

\* Lines 258-271 of _handle_keypress for an adjust key: the new state and the
\* controls sent.
adjust(st, key, cur_exposure_us, cur_gain) ==
  IF st.ae_enabled
  THEN [ae_enabled |-> st.ae_enabled,
        manual_exposure_us |-> st.manual_exposure_us,
        manual_gain |-> st.manual_gain, sent |-> NoCtrl]
  ELSE LET e == CASE key = "[" ->
                       Max(MIN_EXPOSURE_US,
                           Or(st.manual_exposure_us, cur_exposure_us) - EXP_STEP_US)
                  [] key = "]" ->
                       Min(MAX_EXPOSURE_US,
                           Or(st.manual_exposure_us, cur_exposure_us) + EXP_STEP_US)
                  [] OTHER -> st.manual_exposure_us
           g == CASE key = "-" ->
                       Max(MIN_GAIN, Or(st.manual_gain, cur_gain) - GAIN_STEP)
                  [] key \in {"=", "+"} ->
                       Min(MAX_GAIN, Or(st.manual_gain, cur_gain) + GAIN_STEP)
                  [] OTHER -> st.manual_gain
       IN [ae_enabled |-> FALSE, manual_exposure_us |-> e, manual_gain |-> g,
           sent |-> apply_manual_controls(e, g)]

\* _handle_keypress(key, cur_exposure_us, cur_gain) for the keys that touch
\* the exposure state ("m"/"a" toggle AE; "h" stands for the keys that do not).
handle_keypress(st, key, cur_exposure_us, cur_gain) ==
  IF key \in {"m", "a"} THEN toggle_ae(st, cur_exposure_us, cur_gain)
  ELSE IF key \in AdjustKeys THEN adjust(st, key, cur_exposure_us, cur_gain)
  ELSE [ae_enabled |-> st.ae_enabled,
        manual_exposure_us |-> st.manual_exposure_us,
        manual_gain |-> st.manual_gain, sent |-> NoCtrl]

\* Lines 323-330 of _capture_still: the controls a still capture sends.
still_controls(st) ==
  IF ~st.ae_enabled
  THEN Controls(FALSE, st.manual_exposure_us, st.manual_gain)
  ELSE NoCtrl

(***************************************************************************)
(* SimpleCameraApp (imx335.py): the camera shared by the main loop and the *)
(* threads of _capture_still. Of Picamera2 the model keeps the             *)
(* configuration and whether the camera is started: stop() and start()     *)
(* are idempotent, configure() raises on a started camera.                 *)
(***************************************************************************)
\* The capture threads one run can start.
MaxThreads == 2
Threads == 1..MaxThreads

\* No preview capture_array() call yet.
NoFrame == [config |-> "none", started |-> FALSE]

\* filename, lines 300-303
filename_ext(raw_mode) == IF raw_mode THEN ".npz" ELSE ".jpg"

\* cfg, lines 313-316
still_config(raw_mode) == IF raw_mode THEN "still_config_raw" ELSE "still_config_jpeg"

\* The capture call of lines 333-353.
capture_call(raw_mode) == IF raw_mode THEN "capture_array_raw" ELSE "capture_file"

\* The thread a Space / 's' key starts: the first one not yet started.
FreeThreads == {t \in Threads : c_pc[t] = "idle"}
NextThread == CHOOSE t \in FreeThreads : \A u \in FreeThreads : t <= u

(***************************************************************************)
(* Inputs.                                                                 *)
(***************************************************************************)
\* Byte values: 228 = 11100100b has a different 2-bit field for each pixel.
ByteVals == {0, 228, 255}

\* 10-bit values with the four possible low-bit pairs.
PixVals == {0, 341, 682, 1023}

BytePatterns == [1..2 -> ByteVals]
GridPatterns == [1..3 -> PixVals]

\* The longest raw buffer tried for a (width, height).
MaxBufLen(width, height) == height * (ValidPackedWidth(width) + MaxPad) + 1

\* Gains of the metadata, in 1/100: below, inside and above [1.0, 9.6].
AnalogueGains == {g \in 50..1600 : g % 10 = 0}
DigitalGains == {100, 103}

\* self.manual_gain when AE is off: _toggle_ae stores the metadata gain as it
\* is (1.0 for a gain of 0), the gain keys move it in steps inside [1.0, 9.6].
ManualGains == AnalogueGains

\* Values of iso_float the snapping is tried on directly, in 1/IsoOne: the
\* table entries, the midpoints of neighbours, and values just beside them.
IsoProbes ==
  LET n == Len(STANDARD_ISOS)
      mids == {(STANDARD_ISOS[k] + STANDARD_ISOS[k + 1]) * (IsoOne \div 2) :
                 k \in 1..(n - 1)}
      ents == {STANDARD_ISOS[k] * IsoOne : k \in 1..n}
  IN UNION {{v - 1, v, v + 1} : v \in mids \cup ents}

\* Line 149 for every probe, evaluated once.
SnapIsoOf == [x \in IsoProbes |-> SnapIso(x)]

(***************************************************************************)
(* The unpack harness: make a buffer, call unpack_raw10, call it again on  *)
(* a twin of the buffer.                                                   *)
(***************************************************************************)
UnpackInit ==
  /\ u_pc = "input"
  /\ u_origin = "none"
  /\ u_width \in 0..MaxWidth
  /\ u_height \in 1..MaxHeight
  /\ u_width * u_height <= MaxPixels
  /\ u_grid = <<>>
  /\ u_stride = 0
  /\ u_packed = <<>>
  /\ u_ret = ReturnNone
  /\ u_twin = <<>>
  /\ u_twin_ret = ReturnNone
  \* the other components are at rest
  /\ b_pc = "idle"
  /\ b_dir = [n \in FileNames |-> Absent]
  /\ b_outdir = FALSE
  /\ b_files = <<>>
  /\ b_idx = 0
  /\ b_calls = <<>>
  /\ b_writes = <<>>
  /\ b_log = <<>>
  /\ i_pc = "idle"
  /\ i_ae_enabled = TRUE
  /\ i_manual_gain = NoGain
  /\ i_analogue = 100
  /\ i_digital = 100
  /\ i_display_gain = 100
  /\ i_iso_float = 0
  /\ i_iso_est = 0
  /\ t_pc = "idle"
  /\ t_sample = 0
  /\ t_final = 0
  /\ k_pc = "idle"
  /\ k_n = 0
  /\ k_ae_enabled = TRUE
  /\ k_manual_exposure_us = NoValue
  /\ k_manual_gain = NoValue
  /\ k_key = "none"
  /\ k_sent = NoCtrl
  /\ c_main_pc = "idle"
  /\ c_running = TRUE
  /\ c_raw_mode = FALSE
  /\ c_pc = [t \in Threads |-> "idle"]
  /\ c_filename = [t \in Threads |-> "none"]
  /\ c_cfg = [t \in Threads |-> "none"]
  /\ c_call = [t \in Threads |-> "none"]
  /\ c_shot = [t \in Threads |-> "none"]
  /\ c_cam_config = "preview_config"
  /\ c_cam_started = TRUE
  /\ c_frame_on = NoFrame

\* A buffer that encodes a known grid, packed with a stride >= width*5/4.
SynthPacked ==
  /\ u_pc = "input"
  /\ u_width % 4 = 0
  /\ \E pat \in GridPatterns, pad \in 0..MaxPad, padv \in ByteVals :
        LET grid == Repeat(pat, u_width * u_height)
            stride == ValidPackedWidth(u_width) + pad
        IN /\ u_grid' = grid
           /\ u_stride' = stride
           /\ u_packed' = PackRaw10(grid, u_width, u_height, stride, padv)
  /\ u_origin' = "synth"
  /\ u_pc' = "ready"
  /\ UNCHANGED <<u_width, u_height, u_ret, u_twin, u_twin_ret>>
  /\ UNCHANGED <<batchVars, isoVars, toneVars, keyVars, camVars>>

\* An arbitrary buffer of any length.
LoadBuffer ==
  /\ u_pc = "input"
  /\ \E n \in 0..MaxBufLen(u_width, u_height), pat \in BytePatterns :
        u_packed' = Repeat(pat, n)
  /\ u_origin' = "raw"
  /\ u_pc' = "ready"
  /\ UNCHANGED <<u_width, u_height, u_grid, u_stride, u_ret, u_twin, u_twin_ret>>
  /\ UNCHANGED <<batchVars, isoVars, toneVars, keyVars, camVars>>

\* The call unpack_raw10(packed_array, width, height).
CallUnpack ==
  /\ u_pc = "ready"
  /\ u_ret' = unpack_raw10(u_packed, u_width, u_height)
  /\ u_twin' = u_packed
  /\ u_twin_ret' = unpack_raw10(u_packed, u_width, u_height)
  /\ u_pc' = "done"
  /\ UNCHANGED <<u_origin, u_width, u_height, u_grid, u_stride, u_packed>>
  /\ UNCHANGED <<batchVars, isoVars, toneVars, keyVars, camVars>>

\* The same call on a buffer that differs from packed_array in one byte.
CallUnpackTwinByte ==
  /\ u_pc = "done"
  /\ \E i \in 1..Len(u_packed), v \in ByteVals :
        /\ u_twin' = [u_packed EXCEPT ![i] = v]
        /\ u_twin_ret' = unpack_raw10(u_twin', u_width, u_height)
  /\ u_pc' = "compared"
  /\ UNCHANGED <<u_origin, u_width, u_height, u_grid, u_stride, u_packed, u_ret>>
  /\ UNCHANGED <<batchVars, isoVars, toneVars, keyVars, camVars>>

\* The same call on a buffer whose bytes past column c of every row are v.
CallUnpackTwinFill ==
  /\ u_pc = "done"
  /\ \E c \in 0..(ValidPackedWidth(u_width) + 1), v \in ByteVals :
        LET stride == Len(u_packed) \div u_height
        IN /\ u_twin' = [i \in 1..Len(u_packed) |->
                           IF stride > 0 /\ (i - 1) % stride < c
                              /\ i <= stride * u_height
                           THEN u_packed[i] ELSE v]
           /\ u_twin_ret' = unpack_raw10(u_twin', u_width, u_height)
  /\ u_pc' = "compared"
  /\ UNCHANGED <<u_origin, u_width, u_height, u_grid, u_stride, u_packed, u_ret>>
  /\ UNCHANGED <<batchVars, isoVars, toneVars, keyVars, camVars>>

UnpackNext ==
  \/ SynthPacked
  \/ LoadBuffer
  \/ CallUnpack
  \/ CallUnpackTwinByte
  \/ CallUnpackTwinFill

(***************************************************************************)
(* main(): the batch over INPUT_DIR.                                       *)
(***************************************************************************)
BatchInit ==
  /\ b_pc = "start"
  /\ b_dir \in [FileNames -> StoredFiles \cup {Absent, OtherFile}]
  /\ \A n \in FileNames :
       IF n[Len(n)] = ".npz" THEN b_dir[n] # OtherFile
       ELSE b_dir[n] \in {Absent, OtherFile}
  /\ b_outdir \in BOOLEAN
  /\ b_files = <<>>
  /\ b_idx = 0
  /\ b_calls = <<>>
  /\ b_writes = <<>>
  /\ b_log = <<>>
  \* the other components are at rest
  /\ u_pc = "idle"
  /\ u_origin = "none"
  /\ u_width = 0
  /\ u_height = 1
  /\ u_grid = <<>>
  /\ u_stride = 0
  /\ u_packed = <<>>
  /\ u_ret = ReturnNone
  /\ u_twin = <<>>
  /\ u_twin_ret = ReturnNone
  /\ i_pc = "idle"
  /\ i_ae_enabled = TRUE
  /\ i_manual_gain = NoGain
  /\ i_analogue = 100
  /\ i_digital = 100
  /\ i_display_gain = 100
  /\ i_iso_float = 0
  /\ i_iso_est = 0
  /\ t_pc = "idle"
  /\ t_sample = 0
  /\ t_final = 0
  /\ k_pc = "idle"
  /\ k_n = 0
  /\ k_ae_enabled = TRUE
  /\ k_manual_exposure_us = NoValue
  /\ k_manual_gain = NoValue
  /\ k_key = "none"
  /\ k_sent = NoCtrl
  /\ c_main_pc = "idle"
  /\ c_running = TRUE
  /\ c_raw_mode = FALSE
  /\ c_pc = [t \in Threads |-> "idle"]
  /\ c_filename = [t \in Threads |-> "none"]
  /\ c_cfg = [t \in Threads |-> "none"]
  /\ c_call = [t \in Threads |-> "none"]
  /\ c_shot = [t \in Threads |-> "none"]
  /\ c_cam_config = "preview_config"
  /\ c_cam_started = TRUE
  /\ c_frame_on = NoFrame

\* main() up to the for loop.
MainStart ==
  /\ b_pc = "start"
  /\ b_outdir' = TRUE
  /\ b_files' = sorted(glob_npz(b_dir))
  /\ IF b_files' = <<>>
     THEN /\ b_log' = Append(b_log, [line |-> "No .npz files found!", arg |-> <<>>])
          /\ b_pc' = "done"
     ELSE /\ b_log' = b_log
          /\ b_pc' = "loop"
  /\ b_idx' = 1
  /\ UNCHANGED <<b_dir, b_calls, b_writes>>
  /\ UNCHANGED <<unpackVars, isoVars, toneVars, keyVars, camVars>>

\* One iteration of "for f in files: process_file(f)".
ProcessFile ==
  /\ b_pc = "loop"
  /\ LET name == b_files[b_idx]
         f == b_dir[name]
         t == TryBlock(f)
     IN /\ b_calls' = Append(b_calls, name)
        /\ b_log' = b_log \o Printed(name, f, t)
        /\ b_writes' = IF t.end = "saved"
                       THEN Append(b_writes, [path |-> out_name(name), src |-> name])
                       ELSE b_writes
        /\ b_pc' = IF t.end = "raised" /\ ~Caught(t.exc) THEN "crashed"
                   ELSE IF b_idx = Len(b_files) THEN "done"
                   ELSE "loop"
  /\ b_idx' = b_idx + 1
  /\ UNCHANGED <<b_dir, b_outdir, b_files>>
  /\ UNCHANGED <<unpackVars, isoVars, toneVars, keyVars, camVars>>

BatchNext ==
  \/ MainStart
  \/ ProcessFile

(***************************************************************************)
(* The gain -> ISO mapping: one pass of lines 125-149 of run() per step,   *)
(* on the state and the metadata of that iteration.                        *)
(***************************************************************************)
IsoInit ==
  /\ i_pc = "start"
  /\ i_ae_enabled = TRUE
  /\ i_manual_gain = NoGain
  /\ i_analogue = 100
  /\ i_digital = 100
  /\ i_display_gain = 100
  /\ i_iso_float = 0
  /\ i_iso_est = 0
  \* the other components are at rest
  /\ u_pc = "idle"
  /\ u_origin = "none"
  /\ u_width = 0
  /\ u_height = 1
  /\ u_grid = <<>>
  /\ u_stride = 0
  /\ u_packed = <<>>
  /\ u_ret = ReturnNone
  /\ u_twin = <<>>
  /\ u_twin_ret = ReturnNone
  /\ b_pc = "idle"
  /\ b_dir = [n \in FileNames |-> Absent]
  /\ b_outdir = FALSE
  /\ b_files = <<>>
  /\ b_idx = 0
  /\ b_calls = <<>>
  /\ b_writes = <<>>
  /\ b_log = <<>>
  /\ t_pc = "idle"
  /\ t_sample = 0
  /\ t_final = 0
  /\ k_pc = "idle"
  /\ k_n = 0
  /\ k_ae_enabled = TRUE
  /\ k_manual_exposure_us = NoValue
  /\ k_manual_gain = NoValue
  /\ k_key = "none"
  /\ k_sent = NoCtrl
  /\ c_main_pc = "idle"
  /\ c_running = TRUE
  /\ c_raw_mode = FALSE
  /\ c_pc = [t \in Threads |-> "idle"]
  /\ c_filename = [t \in Threads |-> "none"]
  /\ c_cfg = [t \in Threads |-> "none"]
  /\ c_call = [t \in Threads |-> "none"]
  /\ c_shot = [t \in Threads |-> "none"]
  /\ c_cam_config = "preview_config"
  /\ c_cam_started = TRUE
  /\ c_frame_on = NoFrame

\* Lines 125-149 with AE on: display_gain is the total gain of the metadata.
MapGainAuto ==
  /\ \E ag \in AnalogueGains, dg \in DigitalGains :
        LET display_gain == DisplayGain(TRUE, NoGain, TotalGain(ag, dg))
        IN /\ i_analogue' = ag
           /\ i_digital' = dg
           /\ i_display_gain' = display_gain
           /\ i_iso_float' = IsoFloatOf[ClampGain(display_gain)]
           /\ i_iso_est' = IsoEstOf[ClampGain(display_gain)]
  /\ i_ae_enabled' = TRUE
  /\ i_manual_gain' = NoGain
  /\ i_pc' = "mapped"
  /\ UNCHANGED <<unpackVars, batchVars, toneVars, keyVars, camVars>>

\* Lines 125-149 with AE off: display_gain is self.manual_gain.
MapGainManual ==
  /\ \E mg \in ManualGains, ag \in {400}, dg \in DigitalGains :
        LET display_gain == DisplayGain(FALSE, mg, TotalGain(ag, dg))
        IN /\ i_analogue' = ag
           /\ i_digital' = dg
           /\ i_manual_gain' = mg
           /\ i_display_gain' = display_gain
           /\ i_iso_float' = IsoFloatOf[ClampGain(display_gain)]
           /\ i_iso_est' = IsoEstOf[ClampGain(display_gain)]
  /\ i_ae_enabled' = FALSE
  /\ i_pc' = "mapped"
  /\ UNCHANGED <<unpackVars, batchVars, toneVars, keyVars, camVars>>

\* Line 149 alone, on a given iso_float.
SnapProbe ==
  /\ \E x \in IsoProbes :
        /\ i_iso_float' = x
        /\ i_iso_est' = SnapIsoOf[x]
  /\ i_pc' = "snapped"
  /\ i_ae_enabled' = TRUE
  /\ i_manual_gain' = NoGain
  /\ i_analogue' = 100
  /\ i_digital' = 100
  /\ i_display_gain' = 100
  /\ UNCHANGED <<unpackVars, batchVars, toneVars, keyVars, camVars>>

IsoNext ==
  \/ MapGainAuto
  \/ MapGainManual
  \/ SnapProbe

(***************************************************************************)
(* The tone curve: lines 98-105 of process_file on one sample.             *)
(***************************************************************************)
ToneInit ==
  /\ t_pc = "start"
  /\ t_sample = 0
  /\ t_final = 0
  \* the other components are at rest
  /\ u_pc = "idle"
  /\ u_origin = "none"
  /\ u_width = 0
  /\ u_height = 1
  /\ u_grid = <<>>
  /\ u_stride = 0
  /\ u_packed = <<>>
  /\ u_ret = ReturnNone
  /\ u_twin = <<>>
  /\ u_twin_ret = ReturnNone
  /\ b_pc = "idle"
  /\ b_dir = [n \in FileNames |-> Absent]
  /\ b_outdir = FALSE
  /\ b_files = <<>>
  /\ b_idx = 0
  /\ b_calls = <<>>
  /\ b_writes = <<>>
  /\ b_log = <<>>
  /\ i_pc = "idle"
  /\ i_ae_enabled = TRUE
  /\ i_manual_gain = NoGain
  /\ i_analogue = 100
  /\ i_digital = 100
  /\ i_display_gain = 100
  /\ i_iso_float = 0
  /\ i_iso_est = 0
  /\ k_pc = "idle"
  /\ k_n = 0
  /\ k_ae_enabled = TRUE
  /\ k_manual_exposure_us = NoValue
  /\ k_manual_gain = NoValue
  /\ k_key = "none"
  /\ k_sent = NoCtrl
  /\ c_main_pc = "idle"
  /\ c_running = TRUE
  /\ c_raw_mode = FALSE
  /\ c_pc = [t \in Threads |-> "idle"]
  /\ c_filename = [t \in Threads |-> "none"]
  /\ c_cfg = [t \in Threads |-> "none"]
  /\ c_call = [t \in Threads |-> "none"]
  /\ c_shot = [t \in Threads |-> "none"]
  /\ c_cam_config = "preview_config"
  /\ c_cam_started = TRUE
  /\ c_frame_on = NoFrame

RenderSample ==
  /\ \E a \in 0..1023 :
        /\ t_sample' = a
        /\ t_final' = FinalSampleOf[a]
  /\ t_pc' = "rendered"
  /\ UNCHANGED <<unpackVars, batchVars, isoVars, keyVars, camVars>>

ToneNext ==
  \/ RenderSample

(***************************************************************************)
(* Specifications.                                                         *)
(***************************************************************************)
SpecUnpack == UnpackInit /\ [][UnpackNext]_vars

SpecBatch == BatchInit /\ [][BatchNext]_vars

SpecIso == IsoInit /\ [][IsoNext]_vars

SpecTone == ToneInit /\ [][ToneNext]_vars

(***************************************************************************)
(* The keys: one _handle_keypress call per step, on any metadata; and the  *)
(* controls of a still capture.                                            *)
(***************************************************************************)
\* ExposureTime of the metadata (0: key absent), in us.
CurExposures == {0, 3000, 84500, 90000}

\* AnalogueGain of the metadata rounded to two decimals (0: none), in 1/100.
CurGains == {0, 50, 955, 1600}

\* The keys handled in one run.
MaxKeys == 4

Keys == {"m", "a", "[", "]", "-", "=", "+", "h"}

KeyState ==
  [ae_enabled |-> k_ae_enabled, manual_exposure_us |-> k_manual_exposure_us,
   manual_gain |-> k_manual_gain]

KeyInit ==
  /\ k_pc = "start"
  /\ k_n = 0
  /\ k_ae_enabled = TRUE
  /\ k_manual_exposure_us = NoValue
  /\ k_manual_gain = NoValue
  /\ k_key = "none"
  /\ k_sent = NoCtrl
  \* the other components are at rest
  /\ u_pc = "idle"
  /\ u_origin = "none"
  /\ u_width = 0
  /\ u_height = 1
  /\ u_grid = <<>>
  /\ u_stride = 0
  /\ u_packed = <<>>
  /\ u_ret = ReturnNone
  /\ u_twin = <<>>
  /\ u_twin_ret = ReturnNone
  /\ b_pc = "idle"
  /\ b_dir = [n \in FileNames |-> Absent]
  /\ b_outdir = FALSE
  /\ b_files = <<>>
  /\ b_idx = 0
  /\ b_calls = <<>>
  /\ b_writes = <<>>
  /\ b_log = <<>>
  /\ i_pc = "idle"
  /\ i_ae_enabled = TRUE
  /\ i_manual_gain = NoGain
  /\ i_analogue = 100
  /\ i_digital = 100
  /\ i_display_gain = 100
  /\ i_iso_float = 0
  /\ i_iso_est = 0
  /\ t_pc = "idle"
  /\ t_sample = 0
  /\ t_final = 0
  /\ c_main_pc = "idle"
  /\ c_running = TRUE
  /\ c_raw_mode = FALSE
  /\ c_pc = [t \in Threads |-> "idle"]
  /\ c_filename = [t \in Threads |-> "none"]
  /\ c_cfg = [t \in Threads |-> "none"]
  /\ c_call = [t \in Threads |-> "none"]
  /\ c_shot = [t \in Threads |-> "none"]
  /\ c_cam_config = "preview_config"
  /\ c_cam_started = TRUE
  /\ c_frame_on = NoFrame

\* self._handle_keypress(key, exposure_us, analogue_gain), line 174.
HandleKey ==
  /\ k_n < MaxKeys
  /\ k_n' = k_n + 1
  /\ \E key \in Keys, cur_exposure_us \in CurExposures, cur_gain \in CurGains :
       LET r == handle_keypress(KeyState, key, cur_exposure_us, cur_gain)
       IN /\ k_key' = key
          /\ k_ae_enabled' = r.ae_enabled
          /\ k_manual_exposure_us' = r.manual_exposure_us
          /\ k_manual_gain' = r.manual_gain
          /\ k_sent' = r.sent
  /\ k_pc' = "handled"
  /\ UNCHANGED <<unpackVars, batchVars, isoVars, toneVars, camVars>>

\* Lines 323-330 of a capture thread.
StillControls ==
  /\ k_sent' = still_controls(KeyState)
  /\ k_key' = "none"
  /\ k_pc' = "still"
  /\ UNCHANGED <<k_n, k_ae_enabled, k_manual_exposure_us, k_manual_gain>>
  /\ UNCHANGED <<unpackVars, batchVars, isoVars, toneVars, camVars>>

KeyNext ==
  \/ HandleKey
  \/ StillControls

SpecKeys == KeyInit /\ [][KeyNext]_vars

(***************************************************************************)
(* The camera: the main loop of run() and the threads of _capture_still,   *)
(* one statement that touches shared state per step. A camera call of the  *)
(* try block may raise; the handler of line 360 then leads to the finally  *)
(* block of line 365.                                                      *)
(***************************************************************************)
CamInit ==
  /\ c_main_pc = "frame"
  /\ c_running = TRUE
  /\ c_raw_mode = FALSE
  /\ c_pc = [t \in Threads |-> "idle"]
  /\ c_filename = [t \in Threads |-> "none"]
  /\ c_cfg = [t \in Threads |-> "none"]
  /\ c_call = [t \in Threads |-> "none"]
  /\ c_shot = [t \in Threads |-> "none"]
  /\ c_cam_config = "preview_config"
  /\ c_cam_started = TRUE
  /\ c_frame_on = NoFrame
  \* the other components are at rest
  /\ u_pc = "idle"
  /\ u_origin = "none"
  /\ u_width = 0
  /\ u_height = 1
  /\ u_grid = <<>>
  /\ u_stride = 0
  /\ u_packed = <<>>
  /\ u_ret = ReturnNone
  /\ u_twin = <<>>
  /\ u_twin_ret = ReturnNone
  /\ b_pc = "idle"
  /\ b_dir = [n \in FileNames |-> Absent]
  /\ b_outdir = FALSE
  /\ b_files = <<>>
  /\ b_idx = 0
  /\ b_calls = <<>>
  /\ b_writes = <<>>
  /\ b_log = <<>>
  /\ i_pc = "idle"
  /\ i_ae_enabled = TRUE
  /\ i_manual_gain = NoGain
  /\ i_analogue = 100
  /\ i_digital = 100
  /\ i_display_gain = 100
  /\ i_iso_float = 0
  /\ i_iso_est = 0
  /\ t_pc = "idle"
  /\ t_sample = 0
  /\ t_final = 0
  /\ k_pc = "idle"
  /\ k_n = 0
  /\ k_ae_enabled = TRUE
  /\ k_manual_exposure_us = NoValue
  /\ k_manual_gain = NoValue
  /\ k_key = "none"
  /\ k_sent = NoCtrl

OtherVars == <<unpackVars, batchVars, isoVars, toneVars, keyVars>>

\* frame = self.picam2.capture_array() is called (line 118).
MainFrameCall ==
  /\ c_main_pc = "frame"
  /\ c_frame_on' = [config |-> c_cam_config, started |-> c_cam_started]
  /\ c_main_pc' = "framing"
  /\ UNCHANGED <<c_running, c_raw_mode, c_pc, c_filename, c_cfg, c_call, c_shot,
                 c_cam_config, c_cam_started>>
  /\ UNCHANGED OtherVars

\* capture_array() returns a frame of the started camera (lines 118-170).
MainFrameReturn ==
  /\ c_main_pc = "framing"
  /\ c_cam_started
  /\ c_main_pc' = "key"
  /\ UNCHANGED <<c_running, c_raw_mode, c_pc, c_filename, c_cfg, c_call, c_shot,
                 c_cam_config, c_cam_started, c_frame_on>>
  /\ UNCHANGED OtherVars

\* capture_array() raises on the stopped camera: run() goes to line 176.
MainFrameRaise ==
  /\ c_main_pc = "framing"
  /\ ~c_cam_started
  /\ c_main_pc' = "finally"
  /\ UNCHANGED <<c_running, c_raw_mode, c_pc, c_filename, c_cfg, c_call, c_shot,
                 c_cam_config, c_cam_started, c_frame_on>>
  /\ UNCHANGED OtherVars

\* Lines 172-174 and the loop test of line 117: no key.
MainNoKey ==
  /\ c_main_pc = "key"
  /\ c_main_pc' = "frame"
  /\ UNCHANGED <<c_running, c_raw_mode, c_pc, c_filename, c_cfg, c_call, c_shot,
                 c_cam_config, c_cam_started, c_frame_on>>
  /\ UNCHANGED OtherVars

\* Key 'q' (lines 231-233): the loop ends.
MainKeyQuit ==
  /\ c_main_pc = "key"
  /\ c_running' = FALSE
  /\ c_main_pc' = "finally"
  /\ UNCHANGED <<c_raw_mode, c_pc, c_filename, c_cfg, c_call, c_shot,
                 c_cam_config, c_cam_started, c_frame_on>>
  /\ UNCHANGED OtherVars

\* Key 'r' (lines 241-246).
MainKeyRaw ==
  /\ c_main_pc = "key"
  /\ c_raw_mode' = ~c_raw_mode
  /\ c_main_pc' = "frame"
  /\ UNCHANGED <<c_running, c_pc, c_filename, c_cfg, c_call, c_shot,
                 c_cam_config, c_cam_started, c_frame_on>>
  /\ UNCHANGED OtherVars

\* Key Space or 's' (lines 249-251): a thread is started.
MainKeyCapture ==
  /\ c_main_pc = "key"
  /\ FreeThreads # {}
  /\ c_pc' = [c_pc EXCEPT ![NextThread] = "name"]
  /\ c_main_pc' = "frame"
  /\ UNCHANGED <<c_running, c_raw_mode, c_filename, c_cfg, c_call, c_shot,
                 c_cam_config, c_cam_started, c_frame_on>>
  /\ UNCHANGED OtherVars

\* finally: self.picam2.stop() (lines 176-178).
MainFinally ==
  /\ c_main_pc = "finally"
  /\ c_cam_started' = FALSE
  /\ c_main_pc' = "exited"
  /\ UNCHANGED <<c_running, c_raw_mode, c_pc, c_filename, c_cfg, c_call, c_shot,
                 c_cam_config, c_frame_on>>
  /\ UNCHANGED OtherVars

\* Lines 299-308: the file name is made from self.raw_mode.
ThreadName(t) ==
  /\ c_pc[t] = "name"
  /\ c_filename' = [c_filename EXCEPT ![t] = filename_ext(c_raw_mode)]
  /\ c_pc' = [c_pc EXCEPT ![t] = "stop"]
  /\ UNCHANGED <<c_main_pc, c_running, c_raw_mode, c_cfg, c_call, c_shot,
                 c_cam_config, c_cam_started, c_frame_on>>
  /\ UNCHANGED OtherVars

\* Line 312: self.picam2.stop(), or it raises.
ThreadStop(t) ==
  /\ c_pc[t] = "stop"
  /\ \/ /\ c_cam_started' = FALSE
        /\ c_pc' = [c_pc EXCEPT ![t] = "configure"]
     \/ /\ c_cam_started' = c_cam_started
        /\ c_pc' = [c_pc EXCEPT ![t] = "restore_stop"]
  /\ UNCHANGED <<c_main_pc, c_running, c_raw_mode, c_filename, c_cfg, c_call,
                 c_shot, c_cam_config, c_frame_on>>
  /\ UNCHANGED OtherVars

\* Lines 313-318: cfg is picked from self.raw_mode and the camera configured
\* with it; configure raises on a started camera, or for another reason.
ThreadConfigure(t) ==
  /\ c_pc[t] = "configure"
  /\ c_cfg' = [c_cfg EXCEPT ![t] = still_config(c_raw_mode)]
  /\ \/ /\ ~c_cam_started
        /\ c_cam_config' = still_config(c_raw_mode)
        /\ c_pc' = [c_pc EXCEPT ![t] = "start"]
     \/ /\ c_cam_config' = c_cam_config
        /\ c_pc' = [c_pc EXCEPT ![t] = "restore_stop"]
  /\ UNCHANGED <<c_main_pc, c_running, c_raw_mode, c_filename, c_call, c_shot,
                 c_cam_started, c_frame_on>>
  /\ UNCHANGED OtherVars

\* Lines 319-320: self.picam2.start(), or it raises.
ThreadStart(t) ==
  /\ c_pc[t] = "start"
  /\ \/ /\ c_cam_started' = TRUE
        /\ c_pc' = [c_pc EXCEPT ![t] = "controls"]
     \/ /\ c_cam_started' = c_cam_started
        /\ c_pc' = [c_pc EXCEPT ![t] = "restore_stop"]
  /\ UNCHANGED <<c_main_pc, c_running, c_raw_mode, c_filename, c_cfg, c_call,
                 c_shot, c_cam_config, c_frame_on>>
  /\ UNCHANGED OtherVars

\* Lines 323-330: set_controls when AE is disabled, or it raises.
ThreadControls(t) ==
  /\ c_pc[t] = "controls"
  /\ \/ c_pc' = [c_pc EXCEPT ![t] = "capture"]
     \/ c_pc' = [c_pc EXCEPT ![t] = "restore_stop"]
  /\ UNCHANGED <<c_main_pc, c_running, c_raw_mode, c_filename, c_cfg, c_call,
                 c_shot, c_cam_config, c_cam_started, c_frame_on>>
  /\ UNCHANGED OtherVars

\* Lines 333-358: the capture call is picked from self.raw_mode; it takes the
\* still in the configuration of the started camera and the file is saved.
ThreadCapture(t) ==
  /\ c_pc[t] = "capture"
  /\ c_cam_started
  /\ c_call' = [c_call EXCEPT ![t] = capture_call(c_raw_mode)]
  /\ c_shot' = [c_shot EXCEPT ![t] = c_cam_config]
  /\ c_pc' = [c_pc EXCEPT ![t] = "restore_stop"]
  /\ UNCHANGED <<c_main_pc, c_running, c_raw_mode, c_filename, c_cfg,
                 c_cam_config, c_cam_started, c_frame_on>>
  /\ UNCHANGED OtherVars

\* Lines 333-353: the capture call or the save raises (line 360).
ThreadCaptureRaise(t) ==
  /\ c_pc[t] = "capture"
  /\ c_pc' = [c_pc EXCEPT ![t] = "restore_stop"]
  /\ UNCHANGED <<c_main_pc, c_running, c_raw_mode, c_filename, c_cfg, c_call,
                 c_shot, c_cam_config, c_cam_started, c_frame_on>>
  /\ UNCHANGED OtherVars

\* Line 368: self.picam2.stop()
ThreadRestoreStop(t) ==
  /\ c_pc[t] = "restore_stop"
  /\ c_cam_started' = FALSE
  /\ c_pc' = [c_pc EXCEPT ![t] = "restore_configure"]
  /\ UNCHANGED <<c_main_pc, c_running, c_raw_mode, c_filename, c_cfg, c_call,
                 c_shot, c_cam_config, c_frame_on>>
  /\ UNCHANGED OtherVars

\* Line 369: self.picam2.configure(self.preview_config); on a started camera
\* it raises, and lines 371-372 pass over line 370.
ThreadRestoreConfigure(t) ==
  /\ c_pc[t] = "restore_configure"
  /\ IF c_cam_started
     THEN /\ c_cam_config' = c_cam_config
          /\ c_pc' = [c_pc EXCEPT ![t] = "sleep"]
     ELSE /\ c_cam_config' = "preview_config"
          /\ c_pc' = [c_pc EXCEPT ![t] = "restore_start"]
  /\ UNCHANGED <<c_main_pc, c_running, c_raw_mode, c_filename, c_cfg, c_call,
                 c_shot, c_cam_started, c_frame_on>>
  /\ UNCHANGED OtherVars

\* Line 370: self.picam2.start()
ThreadRestoreStart(t) ==
  /\ c_pc[t] = "restore_start"
  /\ c_cam_started' = TRUE
  /\ c_pc' = [c_pc EXCEPT ![t] = "sleep"]
  /\ UNCHANGED <<c_main_pc, c_running, c_raw_mode, c_filename, c_cfg, c_call,
                 c_shot, c_cam_config, c_frame_on>>
  /\ UNCHANGED OtherVars

\* Lines 374-376: the thread ends.
ThreadFinish(t) ==
  /\ c_pc[t] = "sleep"
  /\ c_pc' = [c_pc EXCEPT ![t] = "done"]
  /\ UNCHANGED <<c_main_pc, c_running, c_raw_mode, c_filename, c_cfg, c_call,
                 c_shot, c_cam_config, c_cam_started, c_frame_on>>
  /\ UNCHANGED OtherVars

CamNext ==
  \/ MainFrameCall
  \/ MainFrameReturn
  \/ MainFrameRaise
  \/ MainNoKey
  \/ MainKeyQuit
  \/ MainKeyRaw
  \/ MainKeyCapture
  \/ MainFinally
  \/ \E t \in Threads : ThreadName(t)
  \/ \E t \in Threads : ThreadStop(t)
  \/ \E t \in Threads : ThreadConfigure(t)
  \/ \E t \in Threads : ThreadStart(t)
  \/ \E t \in Threads : ThreadControls(t)
  \/ \E t \in Threads : ThreadCapture(t)
  \/ \E t \in Threads : ThreadCaptureRaise(t)
  \/ \E t \in Threads : ThreadRestoreStop(t)
  \/ \E t \in Threads : ThreadRestoreConfigure(t)
  \/ \E t \in Threads : ThreadRestoreStart(t)
  \/ \E t \in Threads : ThreadFinish(t)

SpecCam == CamInit /\ [][CamNext]_vars

(***************************************************************************)
(* Claims about unpack_raw10 (checked under SpecUnpack).                   *)
(***************************************************************************)
UnpackReturned == u_pc \in {"done", "compared"}

\* C1: round trip. A grid of width*height values in 0..1023 (width % 4 = 0),
\* packed as CSI-2 RAW10 row by row with any stride >= width*5/4, is returned
\* unchanged, in row-major order, by unpack_raw10(buffer, width, height).
C1_RoundTrip ==
  (UnpackReturned /\ u_origin = "synth") =>
     /\ u_ret.kind = "frame"
     /\ Len(u_ret.img) = u_height
     /\ \A r \in 1..u_height :
          /\ Len(u_ret.img[r]) = u_width
          /\ \A c \in 1..u_width :
               u_ret.img[r][c] = u_grid[(r - 1) * u_width + c]

\* C1 witness: a 4x2 grid with several different values, packed with a padded
\* stride, has been unpacked.
C1_Witness ==
  /\ u_pc = "done"
  /\ u_origin = "synth"
  /\ u_width = 4
  /\ u_height = 2
  /\ u_stride > ValidPackedWidth(u_width)
  /\ Cardinality({u_grid[i] : i \in 1..Len(u_grid)}) >= 3
  /\ u_ret.kind = "frame"

\* Two buffers of the same length that agree on the first floor(width*1.25)
\* bytes of every row of stride = length / height bytes.
SameValidBytes(a, b, width, height) ==
  /\ Len(a) = Len(b)
  /\ LET stride == Len(a) \div height
     IN \A i \in 1..Len(a) :
          (i <= stride * height /\ (i - 1) % stride < (width * 5) \div 4)
            => a[i] = b[i]

\* C2: stride padding never influences the result: two buffers of the same
\* length that differ only in the bytes past the first floor(width*1.25) bytes
\* of each row unpack to the same outcome.
C2_PaddingIgnored ==
  (u_pc = "compared" /\ SameValidBytes(u_packed, u_twin, u_width, u_height))
     => u_twin_ret = u_ret

\* C2 witness: two buffers that differ in a padding byte were both unpacked
\* to a frame that is not all zero.
C2_Witness ==
  /\ u_pc = "compared"
  /\ u_twin # u_packed
  /\ SameValidBytes(u_packed, u_twin, u_width, u_height)
  /\ u_width = 4
  /\ u_ret.kind = "frame"
  /\ \E r \in 1..u_height : \E c \in 1..u_width : u_ret.img[r][c] # 0

\* C3 (as claimed): a call with width % 4 # 0, or with a buffer length that is
\* not a multiple of height, ends in the shape-mismatch outcome (return None):
\* it returns no frame and raises no other exception.
C3_ShapeMismatchOutcome ==
  (UnpackReturned /\ (u_width % 4 # 0 \/ Len(u_packed) % u_height # 0))
     => u_ret = ReturnNone

\* A returned frame has exactly height rows of width samples, each in 0..1023.
FrameInRange(ret, width, height) ==
  ret.kind = "frame" =>
     /\ Len(ret.img) = height
     /\ \A r \in 1..height :
          /\ Len(ret.img[r]) = width
          /\ \A c \in 1..width : ret.img[r][c] \in 0..1023

\* C6: every frame unpack_raw10 returns has exactly height rows of width
\* samples, each in 0..1023, whatever the bytes of the buffer.
C6_FrameShapeAndRange ==
  UnpackReturned =>
     /\ FrameInRange(u_ret, u_width, u_height)
     /\ FrameInRange(u_twin_ret, u_width, u_height)

\* C6 witness: an arbitrary buffer holding bytes 255 was unpacked to a frame
\* with a sample at the top of the range.
C6_Witness ==
  /\ u_pc = "done"
  /\ u_origin = "raw"
  /\ u_width > 0
  /\ u_ret.kind = "frame"
  /\ \E r \in 1..u_height : \E c \in 1..u_width : u_ret.img[r][c] = 1023


\* C13 (as claimed): a call with width % 4 = 0 and a buffer length that is a
\* multiple of height, but with a stride (length / height) smaller than
\* floor(width * 1.25), ends in the shape-mismatch outcome (return None), the
\* outcome of a buffer length not divisible by height.
C13_ShortStrideIsShapeMismatch ==
  (/\ UnpackReturned
   /\ u_width % 4 = 0
   /\ Len(u_packed) % u_height = 0
   /\ Len(u_packed) \div u_height < ValidPackedWidth(u_width))
     => u_ret = ReturnNone
(***************************************************************************)
(* Claims about main() and process_file, under SpecBatch.                  *)
(***************************************************************************)
\* A capture the pipeline is made for: a readable .npz whose raw member is
\* 10-bit packed data of H rows of at least W*5/4 bytes.
WellFormed(f) ==
  /\ f.kind = "npz"
  /\ f.loadable
  /\ f.fmt = "SRGGB10_CSI2P"
  /\ Len(f.raw) % H = 0
  /\ Len(f.raw) \div H >= (W * 5) \div 4

\* The captures stored in INPUT_DIR.
StoredCaptures == {n \in FileNames : n[Len(n)] = ".npz" /\ b_dir[n] # Absent}

Called == {b_calls[i] : i \in DOMAIN b_calls}

WrittenFrom == {b_writes[k].src : k \in DOMAIN b_writes}

\* C4: best-effort batch completion. No exception of process_file ends
\* main(); the calls of process_file are made in strictly ascending name
\* order (so no capture twice) on stored captures only, none skipped on the
\* way; and when main() has ended every stored capture was called and every
\* well-formed one had its image written.
C4_BestEffortBatch ==
  /\ b_pc # "crashed"
  /\ \A i, j \in DOMAIN b_calls : i < j => NameLess(b_calls[i], b_calls[j])
  /\ Called \subseteq StoredCaptures
  /\ \A n \in StoredCaptures :
       (\E m \in Called : NameLess(n, m)) => n \in Called
  /\ b_pc = "done" =>
       /\ Called = StoredCaptures
       /\ \A n \in StoredCaptures : WellFormed(b_dir[n]) => n \in WrittenFrom

\* Three captures, the second malformed: main() has ended, the first and the
\* third were written after the second failed.
C4_Witness ==
  /\ b_pc = "done"
  /\ Len(b_calls) = 3
  /\ WellFormed(b_dir[b_calls[1]])
  /\ ~WellFormed(b_dir[b_calls[2]])
  /\ WellFormed(b_dir[b_calls[3]])
  /\ WrittenFrom = {b_calls[1], b_calls[3]}
  /\ \E k \in DOMAIN b_log : b_log[k].line = "Failed"

\* C5: a capture in a packed format other than 10-bit CSI-2 is rejected: no
\* image is ever written from a buffer that is not 10-bit data.
C5_NonTenBitRejected ==
  \A k \in DOMAIN b_writes : b_dir[b_writes[k].src].fmt = "SRGGB10_CSI2P"

\* The lines that report a failure: line 40 of unpack_raw10
\* ("-> Error: shape mismatch. Expected {height}x{stride}, got {shape}") and
\* line 113 of process_file ("-> Failed: {e}").
FailureLines == {"Error: shape mismatch", "Failed"}

\* The capture names a printed line holds: only "Processing: {basename}"
\* interpolates the name of the capture.
NamedIn(l) == IF l.line = "Processing" THEN {l.arg} ELSE {}

\* The error kinds a printed line holds: line 40 names the shape mismatch,
\* line 113 prints the text of the exception only.
KindIn(l) == IF l.line = "Error: shape mismatch" THEN {"ShapeMismatch"} ELSE {}

ErrorKinds == {"ShapeMismatch", "InvalidGeometry", "UnsupportedFormat"}

\* The calls of process_file that wrote no image.
FailedItems == Called \ WrittenFrom

\* The failure lines that hold both the name of the capture and an error kind.
FailureReports(name) ==
  {k \in DOMAIN b_log :
     /\ b_log[k].line \in FailureLines
     /\ name \in NamedIn(b_log[k])
     /\ KindIn(b_log[k]) \cap ErrorKinds # {}}

\* C14 (as claimed): every capture that failed is reported exactly once, by a
\* report that holds the identifier of the capture and the kind of the error,
\* on the path where unpack_raw10 returned None and on the path where an
\* exception was caught.
C14_FailureReportedWithIdAndKind ==
  \A name \in FailedItems : Cardinality(FailureReports(name)) = 1

\* C15 (as claimed): two distinct captures of the input directory never get
\* the same output path, so no image written in a batch overwrites the image
\* of another capture of that batch.
C15_DistinctOutputPaths ==
  \A j, k \in DOMAIN b_writes :
    b_writes[j].src # b_writes[k].src => b_writes[j].path # b_writes[k].path
(***************************************************************************)
(* Claims about the gain -> ISO mapping, under SpecIso.                    *)
(***************************************************************************)
\* iso_est was computed from iso_float in this state.
IsoShown == i_pc \in {"mapped", "snapped"}

\* |entry - iso_raw| for the k-th table entry and the state's iso_float.
Distance(k) == Abs(STANDARD_ISOS[k] * IsoOne - i_iso_float)

\* C7: ISO snapping. The ISO shown is an entry of the standard table whose
\* distance to iso_raw is minimal over the table, and of the entries at that
\* distance it is the first in table order.
C7_SnapNearestFirst ==
  IsoShown =>
    \E j \in DOMAIN STANDARD_ISOS :
      /\ i_iso_est = STANDARD_ISOS[j]
      /\ \A k \in DOMAIN STANDARD_ISOS : Distance(j) <= Distance(k)
      /\ \A k \in DOMAIN STANDARD_ISOS : Distance(k) = Distance(j) => j <= k

\* iso_raw is exactly midway between two neighbours of the table, and the
\* lower (earlier) one is shown.
C7_Witness ==
  /\ i_pc = "snapped"
  /\ \E j \in 1..(Len(STANDARD_ISOS) - 1) :
       /\ Distance(j) = Distance(j + 1)
       /\ Distance(j) > 0
       /\ i_iso_est = STANDARD_ISOS[j]

\* C8: endpoints of the mapping. The exponent is ln(64)/ln(9.6) = 1.8387...;
\* a gain of GAIN_MIN, or any gain below it, is shown as ISO_MIN; a gain of
\* GAIN_MAX, or any gain above it, is shown as the table entry nearest
\* ISO_MAX, which is 6400.
C8_Endpoints ==
  /\ ((Expo \div 1024) * 10000) \div (FixOne \div 1024) = 18387
  /\ STANDARD_ISOS[Len(STANDARD_ISOS)] = ISO_MAX
  /\ i_pc = "mapped" =>
       /\ i_display_gain <= GAIN_MIN => i_iso_est = ISO_MIN
       /\ i_display_gain >= GAIN_MAX => i_iso_est = ISO_MAX

\* A manual gain above GAIN_MAX (AE was switched off at such a gain) is shown
\* as 6400.
C8_Witness ==
  /\ i_pc = "mapped"
  /\ ~i_ae_enabled
  /\ i_manual_gain > GAIN_MAX
  /\ i_display_gain = i_manual_gain
  /\ i_iso_est = ISO_MAX

\* C9: the mapping is monotonically non-decreasing. Every gain that is, after
\* the clamp, at most the gain of this state is shown as an ISO at most the
\* one of this state; and the snapping alone keeps the order of iso_raw.
C9_Monotone ==
  /\ i_pc = "mapped" =>
       \A g1 \in GAIN_MIN..ClampGain(i_display_gain) : IsoEstOf[g1] <= i_iso_est
  /\ i_pc = "snapped" =>
       \A x \in IsoProbes : x <= i_iso_float => SnapIsoOf[x] <= i_iso_est

\* A gain strictly inside the range whose ISO is strictly inside the table.
C9_Witness ==
  /\ i_pc = "mapped"
  /\ i_ae_enabled
  /\ GAIN_MIN + 10 <= i_display_gain
  /\ i_display_gain < GAIN_MAX
  /\ ISO_MIN < i_iso_est
  /\ i_iso_est < ISO_MAX
  /\ IsoEstOf[i_display_gain - 10] < i_iso_est

(***************************************************************************)
(* Claim about the tone curve, under SpecTone.                             *)
(***************************************************************************)
\* C10: the gamma path. Sample 0 is rendered as 0 and sample 1023 as 65535;
\* every rendered value is in 0..65535; every sample at most this one is
\* rendered as a value at most this one's.
C10_GammaPath ==
  /\ ENABLE_GAMMA
  /\ t_pc = "rendered" =>
       /\ t_sample = 0 => t_final = 0
       /\ t_sample = 1023 => t_final = 65535
       /\ t_final \in 0..65535
       /\ \A a \in 0..t_sample : FinalSampleOf[a] <= t_final

\* The full-scale sample, rendered as full scale.
C10_Witness ==
  /\ t_pc = "rendered"
  /\ t_sample = 1023
  /\ t_final = 65535
(***************************************************************************)
(* Claims about the manual controls, under SpecKeys.                       *)
(***************************************************************************)
\* C12: exposure and gain keys are manual-only. In every state ae_enabled
\* implies that manual_exposure_us and manual_gain are both None; and a key
\* '[', ']', '-', '=' or '+' handled while ae_enabled is true leaves
\* ae_enabled, manual_exposure_us and manual_gain as they are and sends no
\* control to the camera.
C12_ManualOnlyKeys ==
  /\ [](k_ae_enabled =>
          (k_manual_exposure_us = NoValue /\ k_manual_gain = NoValue))
  /\ [][(k_ae_enabled /\ k_n' = k_n + 1 /\ k_key' \in AdjustKeys) =>
          /\ UNCHANGED <<k_ae_enabled, k_manual_exposure_us, k_manual_gain>>
          /\ k_sent' = NoCtrl]_vars

\* AE was switched off and on again, and then a gain key was handled.
C12_Witness ==
  /\ k_pc = "handled"
  /\ k_n = 3
  /\ k_key = "="
  /\ k_ae_enabled
  /\ k_sent = NoCtrl

\* C17: manual values stay inside the configured bounds. Whenever AE is
\* disabled manual_gain is in [MIN_GAIN, MAX_GAIN] and manual_exposure_us in
\* [MIN_EXPOSURE_US, MAX_EXPOSURE_US], and no control sent with AE disabled
\* carries an AnalogueGain or ExposureTime outside these bounds.
C17_ManualInBounds ==
  /\ ~k_ae_enabled =>
       /\ k_manual_gain \in MIN_GAIN..MAX_GAIN
       /\ k_manual_exposure_us \in MIN_EXPOSURE_US..MAX_EXPOSURE_US
  /\ (k_sent.sent /\ ~k_sent.AeEnable) =>
       /\ k_sent.AnalogueGain \in {NoValue} \cup (MIN_GAIN..MAX_GAIN)
       /\ k_sent.ExposureTime \in {NoValue} \cup (MIN_EXPOSURE_US..MAX_EXPOSURE_US)
\* ---------------------------------------------------------------------------
\* Claims about the still capture threads and the main loop (SpecCam)
\* ---------------------------------------------------------------------------

Modes == {TRUE, FALSE}

\* C11: within one still capture the file name, the still configuration
\* selected and the capture call used all correspond to one capture mode
\* (.jpg / JPEG config / capture_file, or .npz / RAW config /
\* capture_array("raw")), whatever the main loop does meanwhile, 'r' included.
C11_CaptureModeConsistent ==
  \A t \in Threads :
    /\ c_cfg[t] # "none" =>
         \E m \in Modes : /\ c_filename[t] = filename_ext(m)
                          /\ c_cfg[t] = still_config(m)
    /\ c_call[t] # "none" =>
         \E m \in Modes : /\ c_filename[t] = filename_ext(m)
                          /\ c_cfg[t] = still_config(m)
                          /\ c_call[t] = capture_call(m)

PreviewRunning == c_cam_config = "preview_config" /\ c_cam_started

AllThreadsFinished == \A t \in Threads : c_pc[t] \in {"idle", "done"}

AppQuit == c_main_pc \in {"finally", "exited"}

\* C16 (as claimed): whenever a capture thread finishes, after a capture that
\* succeeded or raised at any step, the camera is configured with the preview
\* configuration and started; and once all capture threads have finished and
\* the app has not quit, the camera is in the preview configuration and
\* running.
C16_PreviewRestored ==
  /\ [][\A t \in Threads :
          (c_pc[t] # "done" /\ c_pc'[t] = "done") => PreviewRunning']_vars
  /\ []((AllThreadsFinished /\ ~AppQuit) => PreviewRunning)

\* The threads between their configure(still config) and their capture call.
Capturing == {t \in Threads : c_pc[t] \in {"start", "controls", "capture"}}

\* The threads that have the camera stopped or configured for a still: from
\* their stop() of line 312 to their start() of line 370.
Holding ==
  {t \in Threads :
     c_pc[t] \in {"configure", "start", "controls", "capture", "restore_stop",
                  "restore_configure", "restore_start"}}

\* C18 (as claimed): between a capture thread's configure(still config) and
\* its capture call no other thread stops or reconfigures the camera, so every
\* still is taken in the still configuration its thread selected, also when
\* Space / 's' is pressed again during a capture; and the main loop's preview
\* capture_array() never runs on a camera that a capture thread has stopped
\* or configured for a still.
C18_NoConfigChangeUnderCapture ==
  /\ [][\A t \in Capturing :
          c_pc'[t] = c_pc[t] =>
            UNCHANGED <<c_cam_config, c_cam_started>>]_vars
  /\ [](\A t \in Threads : c_shot[t] # "none" => c_shot[t] = c_cfg[t])
  /\ [][(c_main_pc = "frame" /\ c_main_pc' = "framing") => Holding = {}]_vars

\* C19 (as claimed): after 'q' the main loop exits and stops the camera, and
\* from the moment every thread has finished the camera is stopped and stays
\* stopped, also when a capture thread was in flight at the time of the quit.
C19_QuitStopsCamera ==
  (/\ ~c_running
   /\ c_main_pc = "exited"
   /\ AllThreadsFinished) => ~c_cam_started

====
